---- MODULE Spec2Model ----
(***************************************************************************)
(* A model of src/src/bloom.rs: BloomFilter<T: BloomHasher> with its       *)
(* constructors (new, optimal), insert, insert_all, contains and           *)
(* false_positive_rate, and the free functions false_positive_rate,        *)
(* optimal_hash_functions and optimal_vec_size.                            *)
(*                                                                         *)
(* f64 values are modelled in fixed point.  TLC's integers are 32 bits     *)
(* wide, so products are taken with MulDivQR, which never forms a value    *)
(* larger than twice its operands.                                         *)
(***************************************************************************)
EXTENDS Integers, Sequences, FiniteSets, TLC

VARIABLES
    hasher,        \* BloomFilter.hasher: the table of the bound BloomHasher
    k,             \* BloomFilter.k
    bit_vec,       \* BloomFilter.bit_vec: bit i of the BitVec is bit_vec[i + 1]
    insert_count,  \* BloomFilter.insert_count
    status,        \* "unconstructed", "ready", "invalid_argument", "panicked"
    op,            \* the last call made: its name, argument and return value
    inserted,      \* history: the byte sequences passed to insert so far
    calls,         \* history: the number of insert calls made so far
    fn,            \* the last call of a free function (specification MathSpec)
    impure         \* history: the hasher has changed the values it returns

vars == <<hasher, k, bit_vec, insert_count, status, op, inserted, calls, fn,
          impure>>

-----------------------------------------------------------------------------
(* Bounds of the model *)

MaxK == 2          \* new() is called with k in 0..MaxK
MaxSize == 2       \* new() is called with array_size in 0..MaxSize
MaxElements == 2   \* optimal() is called with max_elements in 0..MaxElements
MaxInserts == 3    \* insert calls made on one filter
MaxBatch == 2      \* length of a slice given to insert_all
MaxM == 12         \* m given to optimal_hash_functions (MathSpec)
MaxN == 11         \* n given to optimal_hash_functions (MathSpec)

\* The byte sequences given to insert and contains.
Items == {<<>>, <<7>>}

\* The 32-bit values the hasher returns (widened by `as usize`, never truncated).
HashVals == {2, 5}

\* The seeds on which a hasher's table is defined; hash() reduces its seed to these.
SeedClasses == {0, 1}

\* The deterministic hashers: every table of hash values.
Hashers == [SeedClasses \X Items -> HashVals]

NoHasher == <<>>

-----------------------------------------------------------------------------
(* f64 arithmetic in fixed point *)

\* u32::MAX, the value of a saturating `as u32` cast of +inf.  2^32 - 1 is
\* outside TLC's integers; the largest integer TLC has stands for it.
U32_MAX == 2147483647

\* std::f64::consts::LN_2 in millionths.
LN_2 == 693147

\* LN_2.powi(2) in millionths.
LN_2_POWI_2 == 480453

\* One, in the millionths used for LN_2 and ln().
One == 1000000

\* One, in the ten-thousandths used for the false positive rate.
FOne == 10000

\* <<q, r>> with a * b = q * c + r and 0 <= r < c, for a, b >= 0 and c > 0,
\* by doubling over the bits of a.
RECURSIVE MulDivQR(_, _, _)
MulDivQR(a, b, c) ==
    IF a = 0 THEN <<0, 0>>
    ELSE LET h == MulDivQR(a \div 2, b, c)
             r2 == 2 * h[2] + (IF a % 2 = 1 THEN b % c ELSE 0)
             q2 == 2 * h[1] + (IF a % 2 = 1 THEN b \div c ELSE 0)
         IN  <<q2 + (r2 \div c), r2 % c>>

F64Nan == [tag |-> "nan"]
F64Inf == [tag |-> "inf"]

\* A finite non-negative f64: `units` millionths, and `sticky` when the exact
\* value lies strictly above that.
F64Fin(units, sticky) == [tag |-> "fin", units |-> units, sticky |-> sticky]

\* f64::max: a NaN operand is ignored.
F64Max(x, y) ==
    IF x.tag = "nan" THEN y
    ELSE IF y.tag = "nan" THEN x
    ELSE IF x.tag = "inf" \/ y.tag = "inf" THEN F64Inf
    ELSE IF x.units > y.units \/ (x.units = y.units /\ x.sticky) THEN x
    ELSE y

\* f64::ceil followed by `as u32`: NaN casts to 0, +inf saturates.
F64CeilAsU32(x) ==
    IF x.tag = "nan" THEN 0
    ELSE IF x.tag = "inf" THEN U32_MAX
    ELSE (x.units \div One) + (IF x.units % One > 0 \/ x.sticky THEN 1 ELSE 0)

\* m as f64 / n as f64 * LN_2.  0/0 is NaN and m/0 is +inf.  LN_2 lies
\* strictly above its millionths, so the product is inexact whenever m > 0.
RatioTimesLn2(m, n) ==
    IF n = 0 THEN (IF m = 0 THEN F64Nan ELSE F64Inf)
    ELSE LET qr == MulDivQR(m, LN_2, n) IN F64Fin(qr[1], m > 0)

-----------------------------------------------------------------------------
(* The free functions *)

\* Mutant: the floor of 1 is dropped.
optimal_hash_functions_nofloor(m, n) ==
    F64CeilAsU32(RatioTimesLn2(m, n))

\* fn optimal_hash_functions(m: u64, n: u64) -> u32
optimal_hash_functions(m, n) ==
    F64CeilAsU32(F64Max(F64Fin(One, FALSE), RatioTimesLn2(m, n)))

\* An f64 error rate: `hundredths` hundredths, or the f64 NaN.
Rate(h) == [nan |-> FALSE, hundredths |-> h]
RateNan == [nan |-> TRUE, hundredths |-> 0]

\* The error rates given to optimal().
ErrorRates == {Rate(h) : h \in {-50, 0, 1, 25, 50, 100, 150}} \cup {RateNan}

\* error_rate <= 0_f64: false of a NaN.
LeZero(p) == ~p.nan /\ p.hundredths <= 0

\* Mutant: the upper bound 1.0 is accepted.
GtOne(p) == ~p.nan /\ p.hundredths > 100

\* error_rate >= 1_f64: false of a NaN.
GeOne(p) == ~p.nan /\ p.hundredths >= 100

\* -(p.ln()) in millionths, for the rates inside (0, 1].
NegLn(p) ==
    CASE p.hundredths = 1 -> 4605170
      [] p.hundredths = 25 -> 1386294
      [] p.hundredths = 50 -> 693147
      [] p.hundredths = 100 -> 0

\* Mutant: the quotient is rounded down.
optimal_vec_size_floor(n, p) ==
    IF p.nan THEN 0 ELSE MulDivQR(n, NegLn(p), LN_2_POWI_2)[1]

\* fn optimal_vec_size(n: u64, p: f64) -> u64, for p inside (0, 1] or NaN:
\* the ceiling of n * -ln(p) / LN_2^2; a NaN casts to 0.
optimal_vec_size(n, p) ==
    IF p.nan THEN 0
    ELSE LET qr == MulDivQR(n, NegLn(p), LN_2_POWI_2)
         IN  qr[1] + (IF qr[2] > 0 THEN 1 ELSE 0)

\* e^(a / b) in ten-thousandths, for a >= 0 and b > 0: the Taylor series,
\* term i being term i-1 times a / (b * i), until the terms vanish.
RECURSIVE ExpSeries(_, _, _, _, _)
ExpSeries(a, b, i, term, acc) ==
    IF term = 0 THEN acc
    ELSE LET next == MulDivQR(a, term, b * i)[1]
         IN  ExpSeries(a, b, i + 1, next, acc + term)

\* E.powf(-(a / b)) in ten-thousandths; below one ten-thousandth from
\* a / b = 10 on.
ExpNeg(a, b) ==
    IF a >= 10 * b THEN 0
    ELSE (FOne * FOne) \div ExpSeries(a, b, 1, FOne, 0)

\* x.powf(e) in ten-thousandths for an integer e >= 0 and 0 <= x <= 1.
RECURSIVE PowF(_, _)
PowF(x, e) ==
    IF e = 0 THEN FOne ELSE (x * PowF(x, e - 1)) \div FOne

\* Mutant: the rate is taken as e^(-n*m/k) to the k, without the `1 -`.
false_positive_rate_nocompl(n, m, kk) ==
    IF kk = 0 THEN FOne ELSE PowF(ExpNeg(n * m, kk), kk)

\* fn false_positive_rate(n: u64, m: u64, k: u32) -> f64, in ten-thousandths.
\* With k = 0 the exponent is -inf or NaN and powf(_, 0.0) is 1.0.
false_positive_rate(n, m, kk) ==
    IF kk = 0 THEN FOne ELSE PowF(FOne - ExpNeg(n * m, kk), kk)

-----------------------------------------------------------------------------
(* BloomHasher and BloomFilter *)

\* BloomHasher::hash(&self, seed, bytes) of the hasher with table h: a pure
\* function of (seed, bytes).
hash(h, seed, bytes) == h[<<seed % Cardinality(SeedClasses), bytes>>]

\* struct BloomFilter<T>
BloomFilter(h, kk, bits, count) ==
    [hasher |-> h, k |-> kk, bit_vec |-> bits, insert_count |-> count]

\* What a call leaves behind: the filter, the value returned, and whether the
\* call panicked instead of returning.
Returned(self, ret) == [self |-> self, ret |-> ret, panic |-> FALSE]
Panicked(self) == [self |-> self, ret |-> "none", panic |-> TRUE]

\* BitVec::from_elem(array_size as usize, false)
from_elem(array_size, elem) == [i \in 1..array_size |-> elem]

\* Mutant: the bit array is allocated with every bit set.
new_all_set(h, kk, array_size) ==
    BloomFilter(h, kk, from_elem(array_size, TRUE), 0)

\* pub fn new(hasher: T, k: u32, array_size: u64) -> Self
new(h, kk, array_size) ==
    BloomFilter(h, kk, from_elem(array_size, FALSE), 0)

\* pub fn optimal(hasher: T, max_elements: u64, error_rate: f64) -> Self
optimal(h, max_elements, error_rate) ==
    IF LeZero(error_rate) \/ GeOne(error_rate)
    THEN Panicked(BloomFilter(NoHasher, 0, <<>>, 0))
    ELSE LET m == optimal_vec_size(max_elements, error_rate)
             kk == optimal_hash_functions(m, max_elements)
         IN  Returned(new(h, kk, m), "none")

\* Mutant: the hash value is used as the index without the reduction.
position_unreduced(self, seed, bytes) == hash(self.hasher, seed, bytes)

\* self.hasher.hash(seed, bytes) as usize % self.bit_vec.len(), for a
\* bit_vec that is not empty.
position(self, seed, bytes) ==
    hash(self.hasher, seed, bytes) % Len(self.bit_vec)

\* The loop of insert from round `seed` on.  The remainder by a length of 0
\* panics, and so does BitVec::set on an index that is not below the length.
RECURSIVE insert_rounds(_, _, _)
insert_rounds(self, bytes, seed) ==
    IF seed >= self.k THEN Returned(self, "none")
    ELSE IF Len(self.bit_vec) = 0 THEN Panicked(self)
    ELSE LET pos == position(self, seed, bytes)
         IN  IF pos >= Len(self.bit_vec) THEN Panicked(self)
             ELSE insert_rounds([self EXCEPT !.bit_vec[pos + 1] = TRUE],
                                bytes, seed + 1)

\* Mutant: the rounds start at seed 1.
insert_from_seed_1(self, bytes) ==
    LET r == insert_rounds(self, bytes, 1)
    IN  IF r.panic THEN r
        ELSE Returned([r.self EXCEPT !.insert_count = @ + 1], "none")

\* Mutant: the counter moves only when a bit changed.
insert_counting_changes(self, bytes) ==
    LET r == insert_rounds(self, bytes, 0)
    IN  IF r.panic \/ r.self.bit_vec = self.bit_vec THEN r
        ELSE Returned([r.self EXCEPT !.insert_count = @ + 1], "none")

\* Mutant: the bits are set in a cleared array.
insert_clearing(self, bytes) ==
    LET r == insert_rounds(
                 [self EXCEPT !.bit_vec = from_elem(Len(self.bit_vec), FALSE)],
                 bytes, 0)
    IN  IF r.panic THEN r
        ELSE Returned([r.self EXCEPT !.insert_count = @ + 1], "none")

\* Mutant: the array grows by one bit on every insert.
insert_growing(self, bytes) ==
    LET r == insert_rounds(self, bytes, 0)
    IN  IF r.panic THEN r
        ELSE Returned([r.self EXCEPT !.insert_count = @ + 1,
                                     !.bit_vec = Append(@, FALSE)], "none")

\* Mutant: the counter is left as it was.
insert_not_counting(self, bytes) == insert_rounds(self, bytes, 0)

\* pub fn insert(&mut self, bytes: &[u8])
insert(self, bytes) ==
    LET r == insert_rounds(self, bytes, 0)
    IN  IF r.panic THEN r
        ELSE Returned([r.self EXCEPT !.insert_count = @ + 1], "none")

\* pub fn insert_all<B: AsRef<[u8]>>(&mut self, slice: &[B])
RECURSIVE insert_all(_, _)
insert_all(self, slice) ==
    IF slice = <<>> THEN Returned(self, "none")
    ELSE LET r == insert(self, Head(slice))
         IN  IF r.panic THEN r ELSE insert_all(r.self, Tail(slice))

\* The loop of contains from round `seed` on: false at the first bit that is
\* not set, true when no round is left.
RECURSIVE contains_rounds(_, _, _)
contains_rounds(self, bytes, seed) ==
    IF seed >= self.k THEN Returned(self, TRUE)
    ELSE IF Len(self.bit_vec) = 0 THEN Panicked(self)
    ELSE LET pos == position(self, seed, bytes)
         IN  IF pos >= Len(self.bit_vec) THEN Panicked(self)
             ELSE IF ~self.bit_vec[pos + 1] THEN Returned(self, FALSE)
             ELSE contains_rounds(self, bytes, seed + 1)

\* Mutant: a query records the item like an insert before answering.
contains_inserting(self, bytes) ==
    LET r == insert(self, bytes)
    IN  IF r.panic THEN r ELSE contains_rounds(r.self, bytes, 0)

\* Mutant: the answer is true as soon as one round finds its bit set.
contains_any_round(self, bytes) ==
    IF self.k = 0 THEN Returned(self, TRUE)
    ELSE IF Len(self.bit_vec) = 0 THEN Panicked(self)
    ELSE Returned(self, \E seed \in 0..(self.k - 1) :
                            self.bit_vec[position(self, seed, bytes) + 1])

\* pub fn contains<B: AsRef<[u8]>>(&self, bytes: B) -> bool
contains(self, bytes) == contains_rounds(self, bytes, 0)

\* pub fn false_positive_rate(&self) -> f64
filter_false_positive_rate(self) ==
    Returned(self, false_positive_rate(self.insert_count, Len(self.bit_vec),
                                       self.k))

-----------------------------------------------------------------------------
(* The state machine: one filter, constructed once and then used *)

\* The filter the variables hold.
Self == BloomFilter(hasher, k, bit_vec, insert_count)

\* The slices given to insert_all.
Slices == UNION {[1..len -> Items] : len \in 0..MaxBatch}

NoCall == [name |-> "none", arg |-> <<>>, ret |-> "none"]

Init ==
    /\ hasher = NoHasher
    /\ k = 0
    /\ bit_vec = <<>>
    /\ insert_count = 0
    /\ status = "unconstructed"
    /\ op = NoCall
    /\ inserted = {}
    /\ calls = 0
    /\ fn = NoCall
    /\ impure = FALSE

\* The variables after a call that left r behind.
Leaves(r, name, arg) ==
    /\ hasher' = r.self.hasher
    /\ k' = r.self.k
    /\ bit_vec' = r.self.bit_vec
    /\ insert_count' = r.self.insert_count
    /\ status' = IF r.panic THEN "panicked" ELSE "ready"
    /\ op' = [name |-> name, arg |-> arg, ret |-> r.ret]
    /\ fn' = fn
    /\ impure' = impure

\* BloomFilter::new(h, kk, array_size)
New(h, kk, array_size) ==
    /\ status = "unconstructed"
    /\ Leaves(Returned(new(h, kk, array_size), "none"), "new",
              <<kk, array_size>>)
    /\ UNCHANGED <<inserted, calls>>

\* BloomFilter::optimal(h, max_elements, error_rate): the panic on the error
\* rate ends construction and no filter exists.
Optimal(h, max_elements, error_rate) ==
    /\ status = "unconstructed"
    /\ LET r == optimal(h, max_elements, error_rate)
       IN  /\ hasher' = r.self.hasher
           /\ k' = r.self.k
           /\ bit_vec' = r.self.bit_vec
           /\ insert_count' = r.self.insert_count
           /\ status' = IF r.panic THEN "invalid_argument" ELSE "ready"
           /\ op' = [name |-> "optimal",
                     arg |-> <<max_elements, error_rate>>, ret |-> r.ret]
    /\ UNCHANGED <<inserted, calls, fn, impure>>

\* filter.insert(bytes)
Insert(bytes) ==
    /\ status = "ready"
    /\ calls < MaxInserts
    /\ Leaves(insert(Self, bytes), "insert", bytes)
    /\ inserted' = inserted \cup {bytes}
    /\ calls' = calls + 1

\* filter.insert_all(slice)
InsertAll(slice) ==
    /\ status = "ready"
    /\ calls + Len(slice) <= MaxInserts
    /\ Leaves(insert_all(Self, slice), "insert_all", slice)
    /\ inserted' = inserted \cup {slice[i] : i \in 1..Len(slice)}
    /\ calls' = calls + Len(slice)

\* filter.contains(bytes)
Contains(bytes) ==
    /\ status = "ready"
    /\ Leaves(contains(Self, bytes), "contains", bytes)
    /\ UNCHANGED <<inserted, calls>>

\* filter.false_positive_rate()
FalsePositiveRate ==
    /\ status = "ready"
    /\ Leaves(filter_false_positive_rate(Self), "false_positive_rate", <<>>)
    /\ UNCHANGED <<inserted, calls>>

Next ==
    \/ \E h \in Hashers, kk \in 0..MaxK, array_size \in 0..MaxSize :
           New(h, kk, array_size)
    \/ \E h \in Hashers, max_elements \in 0..MaxElements, p \in ErrorRates :
           Optimal(h, max_elements, p)
    \/ \E bytes \in Items : Insert(bytes)
    \/ \E slice \in Slices : InsertAll(slice)
    \/ \E bytes \in Items : Contains(bytes)
    \/ FalsePositiveRate

Spec == Init /\ [][Next]_vars

-----------------------------------------------------------------------------
(* The free functions called on their own *)

FilterUnused == UNCHANGED <<hasher, k, bit_vec, insert_count, status, op,
                            inserted, calls, impure>>

\* optimal_hash_functions(m, n)
CallOptimalHashFunctions(m, n) ==
    /\ fn' = [name |-> "optimal_hash_functions", arg |-> <<m, n>>,
              ret |-> optimal_hash_functions(m, n)]
    /\ FilterUnused

\* optimal_vec_size(n, p)
CallOptimalVecSize(n, p) ==
    /\ fn' = [name |-> "optimal_vec_size", arg |-> <<n, p>>,
              ret |-> optimal_vec_size(n, p)]
    /\ FilterUnused

\* The rates optimal() lets through to optimal_vec_size.
AcceptedRates == {p \in ErrorRates : ~(LeZero(p) \/ GeOne(p))}

\* The parameters optimal derives do not read the hasher: one stands for all.
AnyHasher == CHOOSE h \in Hashers : TRUE

\* The element counts of tests::test_optimal_vec_size.
TestedSizes == {1000, 10000}

\* BloomFilter::optimal(h, max_elements, error_rate), keeping of the filter
\* it returns the length of the bit array and the number of hash rounds.
CallOptimal(h, max_elements, error_rate) ==
    /\ LET r == optimal(h, max_elements, error_rate)
       IN  fn' = [name |-> "optimal", arg |-> <<max_elements, error_rate>>,
                  ret |-> [panic |-> r.panic,
                           m |-> Len(r.self.bit_vec), k |-> r.self.k]]
    /\ FilterUnused

MathNext ==
    \/ \E m \in 0..MaxM, n \in 0..MaxN : CallOptimalHashFunctions(m, n)
    \/ \E n \in (0..MaxN) \cup TestedSizes, p \in ErrorRates :
           CallOptimal(AnyHasher, n, p)
    \/ \E n \in 0..MaxN, p \in AcceptedRates : CallOptimalVecSize(n, p)

MathSpec == Init /\ [][MathNext]_vars

-----------------------------------------------------------------------------
(* A hasher that is not a pure function of (seed, bytes) *)

\* Between two calls of the filter the bound hasher comes to return other
\* values for the same (seed, bytes): its table becomes h.
HasherChanges(h) ==
    /\ status = "ready"
    /\ h # hasher
    /\ hasher' = h
    /\ impure' = TRUE
    /\ UNCHANGED <<k, bit_vec, insert_count, status, op, inserted, calls, fn>>

ImpureNext ==
    \/ Next
    \/ \E h \in Hashers : HasherChanges(h)

ImpureSpec == Init /\ [][ImpureNext]_vars

-----------------------------------------------------------------------------
(* Properties *)

\* The bit positions (from 0) that are set.
SetBits == {i \in 0..(Len(bit_vec) - 1) : bit_vec[i + 1]}

\* The filter is usable: constructed, and no call on it has panicked.
Ready == status = "ready"

\* C1: no false negatives.  In every state of a usable filter with at least
\* one bit, contains(x) returns true for every x passed to insert so far, and
\* every contains call made on such an x has returned true.
C1_NoFalseNegatives ==
    (Ready /\ Len(bit_vec) >= 1) =>
        /\ \A x \in inserted :
               LET r == contains(Self, x) IN ~r.panic /\ r.ret = TRUE
        /\ (op.name = "contains" /\ op.arg \in inserted) => op.ret = TRUE

\* C1 witness: contains has answered true for an inserted item, with both
\* items inserted, k >= 1 and more than one bit.
C1_Witness ==
    /\ Ready /\ k >= 1 /\ Len(bit_vec) >= 2
    /\ inserted = Items /\ calls = MaxInserts
    /\ op.name = "contains" /\ op.arg \in inserted /\ op.ret = TRUE

C3_CountsInsertCalls == Ready => insert_count = calls

\* C3 witness: one item was inserted MaxInserts times into a filter with
\* k >= 1, so the later inserts changed no bit, and the counter followed.
C3_Witness ==
    /\ Ready /\ k >= 1 /\ Cardinality(inserted) = 1
    /\ calls = MaxInserts /\ calls >= 2 /\ insert_count = calls

\* C4: bits are monotone.  No step of a usable filter turns a set bit off.
C4_BitsMonotone ==
    [][Ready =>
          \A i \in 1..Len(bit_vec) :
              bit_vec[i] => (i <= Len(bit_vec') /\ bit_vec'[i])]_vars

\* C4 witness: after inserts of both items some bit is set and some bit is
\* not.
C4_Witness ==
    /\ Ready /\ inserted = Items /\ op.name \in {"insert", "insert_all"}
    /\ SetBits # {} /\ SetBits # 0..(Len(bit_vec) - 1)

\* C5: after construction no step changes the length of the bit array or
\* the number of hash rounds.
C5_SizeAndRoundsFixed ==
    [][Ready => (Len(bit_vec') = Len(bit_vec) /\ k' = k)]_vars

\* C5 witness: a filter with two hash rounds and more than one bit after
\* MaxInserts inserts.
C5_Witness ==
    /\ Ready /\ calls = MaxInserts /\ k = 2 /\ Len(bit_vec) >= 2
    /\ op.name \in {"insert", "insert_all"}

\* C6: on a filter with at least one bit and k >= 1 no call panics, and
\* every position computed lies in [0, m).
C6_NeverFails ==
    (status \in {"ready", "panicked"} /\ Len(bit_vec) >= 1 /\ k >= 1) =>
        /\ status # "panicked"
        /\ \A x \in Items, seed \in 0..(k - 1) :
               position(Self, seed, x) \in 0..(Len(bit_vec) - 1)

\* C6 witness: an insert returned on a filter in which one of the item's
\* hash values was not below the length of the array.
C6_Witness ==
    /\ Ready /\ Len(bit_vec) >= 2 /\ k >= 1 /\ op.name = "insert"
    /\ \E seed \in 0..(k - 1) : hash(hasher, seed, op.arg) >= Len(bit_vec)

\* C7: contains and false_positive_rate are read-only.  A step made by one
\* of them leaves the filter as it was, and a step that changes the filter
\* is made by insert or insert_all.
C7_ReadOnlyQueries ==
    [][Ready =>
          /\ op'.name \in {"contains", "false_positive_rate"}
                 => UNCHANGED <<hasher, k, bit_vec, insert_count>>
          /\ <<hasher, k, bit_vec, insert_count>>'
                 # <<hasher, k, bit_vec, insert_count>>
                 => op'.name \in {"insert", "insert_all"}]_vars

\* C7 witness: contains has returned false early on a filter with two hash
\* rounds in which bits are set.
C7_Witness ==
    /\ Ready /\ k = 2 /\ SetBits # {} /\ calls >= 1
    /\ op.name = "contains" /\ op.ret = FALSE
    /\ ~bit_vec[position(Self, 0, op.arg) + 1]

\* s2 is s1 in another order.
IsPermutation(s1, s2) ==
    /\ Len(s1) = Len(s2)
    /\ \E f \in Permutations(1..Len(s1)) :
           s2 = [i \in 1..Len(s1) |-> s1[f[i]]]

\* C8: insertion order has no effect.  From every state of a usable filter,
\* insert_all on two slices that are permutations of each other leaves the
\* same filter behind.
C8_OrderIndependent ==
    Ready =>
        \A s1 \in Slices, s2 \in Slices :
            IsPermutation(s1, s2) =>
                insert_all(Self, s1) = insert_all(Self, s2)

\* C8 witness: insert_all was given two different items whose positions
\* differ, on a filter that already held an insert.
C8_Witness ==
    /\ Ready /\ k >= 1 /\ op.name = "insert_all" /\ Len(op.arg) = 2
    /\ op.arg[1] # op.arg[2] /\ calls > 2
    /\ position(Self, 0, op.arg[1]) # position(Self, 0, op.arg[2])

\* The least integer not below m * ln(2) / n, for n >= 1: 0 when m is 0, and
\* otherwise the c with (c - 1) * n < m * ln 2 < c * n.
CeilRatioLn2(m, n) ==
    IF m = 0 THEN 0
    ELSE CHOOSE c \in 1..m :
             (c - 1) * n * One <= m * LN_2 /\ m * LN_2 < c * n * One

Max(a, b) == IF a >= b THEN a ELSE b

\* C9: optimal_hash_functions(m, n) never returns less than 1, and for
\* n >= 1 it returns max(1, ceil((m / n) * ln 2)); m = 1, n = 10 gives 1.
C9_HashCountFloor ==
    fn.name = "optimal_hash_functions" =>
        LET m == fn.arg[1]
            n == fn.arg[2]
        IN  /\ fn.ret >= 1
            /\ n >= 1 => fn.ret = Max(1, CeilRatioLn2(m, n))
            /\ (m = 1 /\ n = 10) => fn.ret = 1

\* C9 witness: optimal_hash_functions(1, 10) returned 1.
C9_Witness ==
    /\ fn.name = "optimal_hash_functions" /\ fn.arg = <<1, 10>>
    /\ fn.ret = 1

\* C10: monotonic saturation.  No step of a usable filter lowers the value
\* false_positive_rate() returns.
C10_RateMonotone ==
    [][(Ready /\ Ready') =>
          filter_false_positive_rate(Self').ret
              >= filter_false_positive_rate(Self).ret]_vars

\* C10 witness: false_positive_rate() returned a value strictly between 0
\* and 1 after two or more inserts.
C10_Witness ==
    /\ Ready /\ calls >= 2 /\ op.name = "false_positive_rate"
    /\ op.ret > 0 /\ op.ret < FOne

\* The least integer not below n * -ln(p) / ln(2)^2, for a rate p inside
\* (0, 1): the c with (c - 1) * ln(2)^2 < n * -ln(p) <= c * ln(2)^2.
CeilVecSize(n, p) ==
    CHOOSE c \in 0..(10 * n) :
        /\ n * NegLn(p) <= c * LN_2_POWI_2
        /\ c > 0 => (c - 1) * LN_2_POWI_2 < n * NegLn(p)

\* C11: optimal computes m = ceil(-(max_elements * ln(error_rate)) / ln(2)^2)
\* and k = max(1, ceil((m / max_elements) * ln 2)): 10000 elements at rate
\* 0.01 give m = 95851 and k = 7, and 1000 elements give m = 9586 and k = 7.
C11_ParameterDerivation ==
    (fn.name = "optimal" /\ ~fn.ret.panic /\ ~fn.arg[2].nan) =>
        LET n == fn.arg[1]
            p == fn.arg[2]
        IN  /\ (n >= 1 /\ n <= MaxN) =>
                   /\ fn.ret.m = CeilVecSize(n, p)
                   /\ fn.ret.k = Max(1, CeilRatioLn2(fn.ret.m, n))
            /\ (n = 10000 /\ p = Rate(1)) =>
                   (fn.ret.m = 95851 /\ fn.ret.k = 7)
            /\ (n = 1000 /\ p = Rate(1)) =>
                   (fn.ret.m = 9586 /\ fn.ret.k = 7)

\* C11 witness: optimal with 10000 elements at rate 0.01 returned a filter
\* of 95851 bits and 7 hash rounds.
C11_Witness ==
    /\ fn.name = "optimal" /\ fn.arg = <<10000, Rate(1)>>
    /\ ~fn.ret.panic /\ fn.ret.m = 95851 /\ fn.ret.k = 7

\* C12: every filter optimal returns has m > 0 and k >= 1, for every
\* max_elements it accepts.  (That m and k then stay as they are is C5.)
C12_OptimalFilterWellFormed ==
    (op.name = "optimal" /\ status = "ready") =>
        (Len(bit_vec) > 0 /\ k >= 1)

\* The bit of every round of `bytes` is set in the filter `self`.
AllRoundsSet(self, bytes) ==
    \A seed \in 0..(self.k - 1) :
        self.bit_vec[position(self, seed, bytes) + 1]

\* C13: contains(bytes) returns true if and only if the bit at
\* hash(seed, bytes) mod m is set for every seed in [0, k): the return at the
\* first bit that is not set gives what checking all k positions gives.
C13_ContainsIffAllSet ==
    (Ready /\ (Len(bit_vec) >= 1 \/ k = 0)) =>
        /\ \A x \in Items :
               LET r == contains(Self, x)
               IN  ~r.panic /\ r.ret = AllRoundsSet(Self, x)
        /\ op.name = "contains" => op.ret = AllRoundsSet(Self, op.arg)

\* C13 witness: contains returned false in its second round: the bit of seed
\* 0 is set and the bit of seed 1 is not.
C13_Witness ==
    /\ Ready /\ k = 2 /\ Len(bit_vec) >= 2
    /\ op.name = "contains" /\ op.ret = FALSE
    /\ bit_vec[position(Self, 0, op.arg) + 1]
    /\ ~bit_vec[position(Self, 1, op.arg) + 1]

\* The positions (from 0) of the rounds of `bytes` in the filter `self`.
Positions(self, bytes) ==
    {position(self, seed, bytes) : seed \in 0..(self.k - 1)}

\* C14: an insert that returns sets exactly the bits at the positions
\* hash(seed, bytes) mod m for seed in [0, k), at most k of them, leaves every
\* other bit as it was, and besides that only adds 1 to insert_count.
C14_InsertSetsExactly ==
    [][(Ready /\ Ready' /\ op'.name = "insert") =>
          /\ Len(bit_vec') = Len(bit_vec)
          /\ \A i \in 0..(Len(bit_vec) - 1) :
                 bit_vec'[i + 1] =
                     (bit_vec[i + 1] \/ i \in Positions(Self, op'.arg))
          /\ Cardinality(Positions(Self, op'.arg)) <= k
          /\ insert_count' = insert_count + 1
          /\ k' = k /\ hasher' = hasher]_vars

\* C14 witness: an insert with two hash rounds whose positions collide has
\* returned, and a bit set earlier at another position is still set.
C14_Witness ==
    /\ Ready /\ k = 2 /\ op.name = "insert"
    /\ Cardinality(Positions(Self, op.arg)) = 1
    /\ SetBits \ Positions(Self, op.arg) # {}

\* C15, as amended: a filter constructed by new(hasher, k, array_size) has k
\* as given, array_size bits, all of them false, and insert_count = 0; and
\* when k >= 1 and array_size >= 1, contains returns false for every byte
\* sequence until the first insert.
C15_FreshFilter ==
    /\ op.name = "new" =>
           /\ Ready
           /\ k = op.arg[1] /\ Len(bit_vec) = op.arg[2]
           /\ SetBits = {} /\ insert_count = 0
    /\ (Ready /\ calls = 0 /\ k >= 1 /\ Len(bit_vec) >= 1) =>
           /\ \A x \in Items :
                  LET r == contains(Self, x) IN ~r.panic /\ r.ret = FALSE
           /\ op.name = "contains" => op.ret = FALSE

\* C15 witness: contains has returned false on a filter of one bit (which
\* only new constructs) with k >= 1, before any insert.
C15_Witness ==
    /\ Ready /\ calls = 0 /\ k >= 1 /\ Len(bit_vec) = 1
    /\ op.name = "contains" /\ op.ret = FALSE

\* C15 as first stated: whenever k >= 1, contains returns false on the
\* filter new has just constructed, whatever array_size is.
C15_FreshContainsFalse ==
    (op.name = "new" /\ k >= 1) =>
        \A x \in Items :
            LET r == contains(Self, x) IN ~r.panic /\ r.ret = FALSE

\* C16: the no-false-negative guarantee depends on hasher purity.  As long
\* as the hasher has returned the same value for the same (seed, bytes),
\* contains returns true for every inserted item; the witness is a state,
\* reached once the hasher has changed its values, in which contains returns
\* false for an inserted item.
C16_PureHasherNoFalseNegatives ==
    (Ready /\ Len(bit_vec) >= 1 /\ ~impure) =>
        \A x \in inserted :
            LET r == contains(Self, x) IN ~r.panic /\ r.ret = TRUE

\* C16 witness: with a hasher that changed its values, contains returns
\* false for an item that was inserted.
C16_Witness ==
    /\ Ready /\ Len(bit_vec) >= 1 /\ k >= 1 /\ impure
    /\ \E x \in inserted :
           LET r == contains(Self, x) IN ~r.panic /\ r.ret = FALSE

\* The positions set by the items inserted so far.
InsertedPositions == UNION {Positions(Self, x) : x \in inserted}

\* C17: false positives are possible.  When contains returns true for a byte
\* sequence never passed to insert, each of its k positions is a position of
\* an inserted item; the witness is such a state.
C17_FalsePositiveFromCollisions ==
    (Ready /\ (Len(bit_vec) >= 1 \/ k = 0)) =>
        /\ \A y \in Items \ inserted :
               contains(Self, y).ret = TRUE =>
                   Positions(Self, y) \subseteq InsertedPositions
        /\ (op.name = "contains" /\ op.arg \notin inserted /\ op.ret = TRUE)
               => Positions(Self, op.arg) \subseteq InsertedPositions

\* C17 witness: contains has returned true for an item that was never
\* inserted, whose two distinct positions were set by the other item.
C17_Witness ==
    /\ Ready /\ k = 2 /\ Len(bit_vec) >= 2 /\ inserted # {}
    /\ op.name = "contains" /\ op.arg \notin inserted /\ op.ret = TRUE
    /\ Cardinality(Positions(Self, op.arg)) = 2

\* C18: membership answers are monotone.  Over every step of a usable
\* filter, an item for which contains returns true before the step has
\* contains return true after it, inserted or not.
C18_AnswersMonotone ==
    [][(Ready /\ Ready') =>
          \A x \in Items :
              LET before == contains(Self, x)
                  after == contains(Self', x)
              IN  (~before.panic /\ before.ret = TRUE)
                      => (~after.panic /\ after.ret = TRUE)]_vars

\* C18 witness: after MaxInserts inserts contains still returns true for an
\* item that was never inserted.
C18_Witness ==
    /\ Ready /\ k >= 1 /\ Len(bit_vec) >= 2 /\ calls = MaxInserts
    /\ op.name \in {"insert", "insert_all"}
    /\ \E x \in Items \ inserted :
           LET r == contains(Self, x) IN ~r.panic /\ r.ret = TRUE

Min(a, b) == IF a <= b THEN a ELSE b

\* C19: in every state of a usable filter the number of bits set is at most
\* min(m, k * insert_count); all bits are false while insert_count is 0.
C19_SetBitBound ==
    Ready =>
        /\ Cardinality(SetBits) <= Min(Len(bit_vec), k * insert_count)
        /\ insert_count = 0 => SetBits = {}

\* C19 witness: one insert with two hash rounds has set two bits.
C19_Witness ==
    /\ Ready /\ k = 2 /\ insert_count = 1
    /\ Cardinality(SetBits) = k * insert_count

====
